---- MODULE Spec2Model ----
(***************************************************************************)
(* Model of the Nebula Windows installer: the PATH configuration           *)
(* procedure, the registry record under HKCU\Software\Nebula, the IDE      *)
(* detection and the extension installs, as written in the installer       *)
(* backend document (AddToPath, IsUpgrade, ShouldInstallExtensions,        *)
(* Install*Extension procedures) and in the Inno Setup script ([Tasks],    *)
(* [Registry], [Run], [UninstallDelete], CheckIDEs).                       *)
(*                                                                         *)
(* Strings are sequences of one-character strings.  The delimiter of the   *)
(* PATH value is ";".                                                      *)
(***************************************************************************)
EXTENDS Integers, Sequences, FiniteSets, TLC

\* ------------------------------------------------------------------------
\* Bounds
\* ------------------------------------------------------------------------
MaxPathLen == 4
MaxSegLen == 2
MaxOps == 3

\* ------------------------------------------------------------------------
\* Strings
\* ------------------------------------------------------------------------
Delim == ";"
Letters == {"a", "b"}
Chars == Letters \cup {Delim}

RECURSIVE StringsOver(_, _)
StringsOver(cs, n) ==
    IF n = 0 THEN {<<>>}
    ELSE LET shorter == StringsOver(cs, n - 1)
         IN  shorter \cup {Append(s, c) : s \in shorter, c \in cs}

\* PATH values the environment can hold, and install directories' bin paths
PathValues == StringsOver(Chars, MaxPathLen)
SegmentValues == StringsOver(Letters, MaxSegLen) \ {<<>>}

\* Pascal Pos(SubStr, S): index of the first occurrence of SubStr in S, 0 if
\* there is none.
Pos(sub, s) ==
    LET hits == {i \in 1..(Len(s) - Len(sub) + 1) :
                     SubSeq(s, i, i + Len(sub) - 1) = sub}
    IN  IF hits = {} THEN 0
        ELSE CHOOSE i \in hits : \A j \in hits : i <= j

\* The segments of a delimited value: the pieces between delimiters.
RECURSIVE Split(_)
Split(s) ==
    LET d == Pos(<<Delim>>, s)
    IN  IF d = 0 THEN <<s>>
        ELSE <<SubSeq(s, 1, d - 1)>> \o Split(SubSeq(s, d + 1, Len(s)))

RECURSIVE Join(_)
Join(segs) ==
    IF segs = <<>> THEN <<>>
    ELSE IF Len(segs) = 1 THEN segs[1]
    ELSE segs[1] \o <<Delim>> \o Join(Tail(segs))

CountSeg(seg, value) ==
    Cardinality({i \in 1..Len(Split(value)) : Split(value)[i] = seg})

HasSegment(seg, value) == CountSeg(seg, value) > 0

\* ------------------------------------------------------------------------
\* PATH Mutator
\* ------------------------------------------------------------------------
\* AddToPath: the test that decides whether the value is rewritten.
AlwaysAbsent(seg, value) == TRUE
SegmentAbsent(seg, value) == Pos(seg, value) = 0

\* AddToPath: the value written when the test finds the segment absent.
AppendSegment(value, seg) == value \o <<Delim>> \o seg

\* AddToPath as a function of the value read from HKCU\Environment\Path.
EnsureSegmentPresent(value, seg) ==
    IF SegmentAbsent(seg, value) THEN AppendSegment(value, seg) ELSE value

\* AddToPath with the results of its two registry calls: a failed
\* RegQueryStringValue leaves Path empty, a failed RegWriteStringValue leaves
\* the stored value as it was; neither result is looked at.
AddToPath(value, s, readOk, writeOk) ==
    LET Path == IF readOk THEN value ELSE <<>>
    IN  IF SegmentAbsent(s, Path) /\ writeOk THEN AppendSegment(Path, s)
        ELSE value

\* Uninstall's removal of the PATH entry: drop the segments equal to seg and
\* rejoin the rest with single delimiters.
RemoveContaining(value, seg) ==
    Join(SelectSeq(Split(value), LAMBDA x : Pos(seg, x) = 0))
RemoveSegment(value, seg) ==
    Join(SelectSeq(Split(value), LAMBDA x : x # seg))

\* ------------------------------------------------------------------------
\* Build constants and the registry record (HKCU\Software\Nebula)
\* ------------------------------------------------------------------------
AppVersion == "1.0.0"
ExtVersion == "1.0.0"

\* Versions an earlier build can have written; "" is a value that is not set.
OldVersion == "0.9.0"
\* key: the key Software\Nebula exists.
NoRecord ==
    [key |-> FALSE, InstallPath |-> "", Version |-> "",
     ExtensionVersion |-> "", InstallDate |-> ""]

BuildRecord ==
    [key |-> TRUE, InstallPath |-> "app", Version |-> AppVersion,
     ExtensionVersion |-> ExtVersion, InstallDate |-> "today"]

PriorRecords ==
    [key : {TRUE}, InstallPath : {"app"}, Version : {OldVersion, AppVersion},
     ExtensionVersion : {"", OldVersion, ExtVersion}, InstallDate : {"earlier"}]

\* ExpandConstant('{app}\bin') of the one install directory of the model.
AppBin == <<"a">>

\* The PATH values a machine has before the installer ever ran (others come
\* about by install runs).
MaxEnvPathLen == 1
EnvPathValues == StringsOver(Letters \ {AppBin[1]}, MaxEnvPathLen)

\* IsUpgrade: RegKeyExists(HKCU, 'Software\Nebula').
IsUpgradeSameVersionOnly(l) == l.key /\ l.Version = AppVersion
IsUpgrade(l) == l.key

\* ShouldInstallExtensions: the stored ExtensionVersion (empty when the value
\* or the key is missing) differs from the build's.
ShouldInstallExtensions(l) ==
    LET InstalledVer == l.ExtensionVersion
    IN  InstalledVer # ExtVersion

\* The three cases of an install run.
ReconcilerState(l) ==
    IF ~IsUpgrade(l) THEN "FreshInstall"
    ELSE IF l.Version = AppVersion THEN "UpgradeSameVersion"
    ELSE "UpgradeNewVersion"

\* ------------------------------------------------------------------------
\* Tasks and editor targets
\* ------------------------------------------------------------------------
Targets == {"vscode", "jetbrains", "neovim"}

\* The steps of an install run in the order Setup performs them: [Files],
\* the four [Registry] entries of Software\Nebula one after the other
\* ("registry" is the first, InstallPath), the post-install procedures, the
\* [Run] entry.
RegistryFirst ==
    <<"registry", "regVersion", "regExtensionVersion", "regInstallDate", "files",
      "path", "jetbrains", "neovim", "run", "finished">>
StepOrder ==
    <<"files", "registry", "regVersion", "regExtensionVersion", "regInstallDate",
      "path", "jetbrains", "neovim", "run", "finished">>
StepIndex(step) == CHOOSE i \in 1..Len(StepOrder) : StepOrder[i] = step

\* The step that follows an extension install: its result is ignored.
StopOnFailure(step, ok) ==
    IF ok THEN StepOrder[StepIndex(step) + 1] ELSE "finished"
StepAfter(step, ok) == StepOrder[StepIndex(step) + 1]

\* ------------------------------------------------------------------------
\* State
\* ------------------------------------------------------------------------
VARIABLES
    path,       \* HKCU\Environment\Path
    seg,        \* ExpandConstant('{app}\bin')
    pmLog,      \* calls of the PATH Mutator so far: op, before, after, wrote
    fs,         \* which editor files and directories exist on the machine
    ledger,     \* the key HKCU\Software\Nebula and its values
    installed,  \* the files of [Files] are present under {app}
    artifacts,  \* targets whose extension, plugin or helper file is present
    pc,         \* "idle" between runs, else the step of the install run
    silent,     \* the run was started with /SILENT or /VERYSILENT
    tasks,      \* the [Tasks] selected for the run
    found,      \* VSCodeFound, VSCodeBin, NeovimFound, JetBrainsFound
    prior,      \* the registry record as the run found it
    reconState, \* FreshInstall, UpgradeSameVersion or UpgradeNewVersion
    outcome,    \* per target: what the run did for it
    lowDisk,    \* the run was started with less free space than the minimum
    noExt,      \* the run was started with /NOEXTENSIONS
    pathAccess, \* whether HKCU\Environment can be read and written in the run
    fault,      \* why the run was abandoned, "none" otherwise
    userFile,   \* a file of the user's lies in {app}
    appDir,     \* the directory {app} exists
    \* the playground's execute endpoint (route.ts)
    now,        \* Date.now()
    tmp,        \* the files in os.tmpdir(), by the number in their name
    req,        \* the POST requests being served
    \* the playground page (PlaygroundPage)
    code,       \* useState: the editor's text
    output,     \* useState
    error,      \* useState
    isLoading,  \* useState
    timer,      \* the debounce timer of the effect is pending
    requests,   \* every fetch("/api/execute") so far, in order: code, state
    \* the debug adapter (NebulaDebugAdapter)
    sent,       \* the messages passed to sendMessage, in order
    handled,    \* the calls of handleMessage so far
    runnerTerminal

pathVars == <<path, seg, pmLog>>
runInputs == <<silent, tasks, found, prior, reconState, lowDisk, noExt, pathAccess>>
runVars == <<silent, tasks, found, prior, reconState, lowDisk, noExt, pathAccess,
             fault>>
dirVars == <<userFile, appDir>>
setupVars == <<path, seg, pmLog, fs, ledger, installed, artifacts, pc, silent,
               tasks, found, prior, reconState, outcome, lowDisk, noExt, pathAccess,
               fault, userFile, appDir>>
execVars == <<now, tmp, req>>
pageVars == <<code, output, error, isLoading, timer, requests>>
daVars == <<sent, handled, runnerTerminal>>
webVars == <<execVars, pageVars, daVars>>
vars == <<setupVars, webVars>>

PMEntry(op, before, after) ==
    [op |-> op, before |-> before, after |-> after, wrote |-> before # after]

\* The call of AddToPath in an install run, with the registry calls' results.
PMEntryIO(before, after, readOk, writeOk) ==
    [op |-> "ensure", before |-> before, after |-> after,
     wrote |-> before # after, readOk |-> readOk, writeOk |-> writeOk]

\* A setup process starts with its globals cleared.
StaleGlobals ==
    [VSCodeFound |-> FALSE, VSCodeBin |-> "user", NeovimFound |-> FALSE,
     JetBrainsFound |-> FALSE]
NoneFound ==
    [VSCodeFound |-> FALSE, VSCodeBin |-> "", NeovimFound |-> FALSE,
     JetBrainsFound |-> FALSE]
NoOutcome == [t \in Targets |-> "None"]

FsStates ==
    [userCodeCmd : BOOLEAN, machineCodeCmd : BOOLEAN, nvimExe : BOOLEAN,
     toolboxDir : BOOLEAN, nvimConfigDir : BOOLEAN]

\* ------------------------------------------------------------------------
\* The playground and the debug adapter before anything happened
\* ------------------------------------------------------------------------
\* Date.now() takes the values 0..MaxClock; MaxRequests requests are served.
MaxClock == 1
MaxRequests == 2
Clock == 0..MaxClock
Requests == 1..MaxRequests

\* Programs a request or the editor can hold; "" is no code.
Sources == {"p", "q", "x"}

NoRequest == [pc |-> "waiting", code |-> "", tempFilePath |-> -1, read |-> "none"]

IdleExec ==
    /\ now = 0
    /\ tmp = [n \in Clock |-> "absent"]
    /\ req = [r \in Requests |-> NoRequest]

\* useState(DEFAULT_CODE), useState(""), useState(null), useState(false); the
\* effect has run once and set its timer.
IdlePage ==
    /\ code = "p"
    /\ output = ""
    /\ error = "null"
    /\ isLoading = FALSE
    /\ timer = TRUE
    /\ requests = <<>>

IdleDA ==
    /\ sent = <<>>
    /\ handled = <<>>
    /\ runnerTerminal = "undefined"

IdleWeb == IdleExec /\ IdlePage /\ IdleDA

\* ------------------------------------------------------------------------
\* The PATH Mutator on its own: any PATH value, any segment, a few calls
\* ------------------------------------------------------------------------
IdleRun ==
    /\ pc = "idle"
    /\ silent = FALSE
    /\ tasks = {}
    /\ found = NoneFound
    /\ prior = NoRecord
    /\ reconState = "FreshInstall"
    /\ outcome = NoOutcome
    /\ lowDisk = FALSE
    /\ noExt = FALSE
    /\ pathAccess = "ok"
    /\ fault = "none"

InitPath ==
    /\ path \in PathValues
    /\ seg \in SegmentValues
    /\ pmLog = <<>>
    /\ fs = [userCodeCmd |-> FALSE, machineCodeCmd |-> FALSE, nvimExe |-> FALSE,
             toolboxDir |-> FALSE, nvimConfigDir |-> FALSE]
    /\ ledger = NoRecord
    /\ installed = FALSE
    /\ artifacts = {}
    /\ userFile = FALSE
    /\ appDir = FALSE
    /\ IdleRun
    /\ IdleWeb

PM_Ensure ==
    /\ Len(pmLog) < MaxOps
    /\ path' = EnsureSegmentPresent(path, seg)
    /\ pmLog' = Append(pmLog, PMEntry("ensure", path, path'))
    /\ UNCHANGED <<seg, fs, ledger, installed, artifacts, pc, runVars, outcome,
                   dirVars>>
    /\ UNCHANGED webVars

PM_Remove ==
    /\ Len(pmLog) < MaxOps
    /\ path' = RemoveSegment(path, seg)
    /\ pmLog' = Append(pmLog, PMEntry("remove", path, path'))
    /\ UNCHANGED <<seg, fs, ledger, installed, artifacts, pc, runVars, outcome,
                   dirVars>>
    /\ UNCHANGED webVars

NextPath == PM_Ensure \/ PM_Remove

SpecPath == InitPath /\ [][NextPath]_vars

\* ------------------------------------------------------------------------
\* Install and uninstall runs
\* ------------------------------------------------------------------------
\* CheckIDEs, from the files that exist and the globals as they were: the
\* per-user code.cmd is looked at before the per-machine one.
CheckIDEsMachineFirst(f, g) ==
    LET vsFound == f.userCodeCmd \/ f.machineCodeCmd
    IN  [VSCodeFound |-> vsFound,
         VSCodeBin |-> IF vsFound
                       THEN (IF f.machineCodeCmd THEN "machine" ELSE "user")
                       ELSE g.VSCodeBin,
         NeovimFound |-> f.nvimExe,
         JetBrainsFound |-> f.toolboxDir]
CheckIDEs(f, g) ==
    LET vsFound == f.userCodeCmd \/ f.machineCodeCmd
    IN  [VSCodeFound |-> vsFound,
         VSCodeBin |-> IF vsFound
                       THEN (IF f.userCodeCmd THEN "user" ELSE "machine")
                       ELSE g.VSCodeBin,
         NeovimFound |-> f.nvimExe,
         JetBrainsFound |-> f.toolboxDir]

\* [Tasks]: an IDE task is offered only when its Check function holds.
AvailableTasks(g) ==
    {"addtopath"}
        \cup (IF g.VSCodeFound THEN {"vscode"} ELSE {})
        \cup (IF g.NeovimFound THEN {"neovim"} ELSE {})
        \cup (IF g.JetBrainsFound THEN {"jetbrains"} ELSE {})

\* A machine before a run: with an install of an earlier or the same build
\* or without one, no Setup process running.
InitWith(paths, fss, userFiles) ==
    /\ path \in paths
    /\ seg = AppBin
    /\ pmLog = <<>>
    /\ fs \in fss
    /\ ledger \in {NoRecord} \cup PriorRecords
    /\ installed = ledger.key
    /\ artifacts = {}
    /\ userFile \in userFiles
    /\ appDir = (installed \/ userFile)
    /\ IdleRun
    /\ IdleWeb

\* Every PATH value and every combination of detected IDEs; nothing of the
\* user's in the install directory.
Init == InitWith(EnvPathValues, FsStates, {FALSE})

\* DetectVSCode, DetectNeovim, DetectJetBrains: the globals CheckIDEs set.
Detected(t, g) ==
    IF t = "vscode" THEN g.VSCodeFound
    ELSE IF t = "neovim" THEN g.NeovimFound
    ELSE g.JetBrainsFound

\* [Tasks]: the configuration tasks are always offered; a task is checked
\* by default unless it has Flags: unchecked.
ConfigTasks == {"addtopath", "desktopicon", "fileassoc"}
UncheckedTasks == {"desktopicon", "fileassoc"}
DefaultTasks(g) == (AvailableTasks(g) \cup ConfigTasks) \ UncheckedTasks

\* BuildUI: the check boxes the wizard's directory page shows, with their
\* initial Checked value.
WizardChecked == [addtopath |-> TRUE, desktopicon |-> TRUE]

NextStep(step) == StepOrder[StepIndex(step) + 1]

\* How a run is started and what it meets: the command line switches, the
\* free disk space, the access to HKCU\Environment.  A run departs from the
\* plain one in its switches, or in the disk space, or in the access.
RunConditions ==
    {[silent |-> sil, noExt |-> nx, lowDisk |-> FALSE, pathAccess |-> "ok"] :
        sil \in BOOLEAN, nx \in BOOLEAN}
    \cup {[silent |-> FALSE, noExt |-> FALSE, lowDisk |-> TRUE, pathAccess |-> "ok"]}
    \cup {[silent |-> FALSE, noExt |-> FALSE, lowDisk |-> FALSE, pathAccess |-> a] :
            a \in {"readDenied", "writeDenied", "denied"}}

\* A setup process ends: its globals go with it.
ResetRun ==
    /\ silent' = FALSE
    /\ tasks' = {}
    /\ found' = NoneFound
    /\ prior' = NoRecord
    /\ reconState' = "FreshInstall"
    /\ outcome' = NoOutcome
    /\ lowDisk' = FALSE
    /\ noExt' = FALSE
    /\ pathAccess' = "ok"
    /\ fault' = "none"

\* A run is abandoned: the process is on its way out, only the reason, the
\* record it found and the conditions it met are kept until it is gone.
DropRun ==
    /\ silent' = FALSE
    /\ tasks' = {}
    /\ found' = NoneFound
    /\ reconState' = "FreshInstall"
    /\ outcome' = NoOutcome
    /\ noExt' = FALSE
    /\ UNCHANGED <<prior, lowDisk, pathAccess>>

\* Setup starts: InitializeSetup lets the run proceed whatever the free disk
\* space is, InitializeWizard detects the IDEs, the user (or the command
\* line) selects the tasks.
StartInstall ==
    /\ pc = "idle"
    /\ \E c \in RunConditions :
       \E sel \in SUBSET AvailableTasks(CheckIDEs(fs, NoneFound)) :
          /\ silent' = c.silent
          /\ lowDisk' = c.lowDisk
          /\ noExt' = c.noExt
          /\ pathAccess' = c.pathAccess
          /\ tasks' = sel
    /\ found' = CheckIDEs(fs, NoneFound)
    /\ prior' = ledger
    /\ reconState' = ReconcilerState(ledger)
    /\ outcome' = NoOutcome
    /\ pmLog' = <<>>
    /\ pc' = StepOrder[1]
    /\ UNCHANGED <<path, seg, fs, ledger, installed, artifacts, fault, dirVars>>
    /\ UNCHANGED webVars

\* MinVersion=10.0: on an older Windows Setup refuses to run.
RefuseOldWindows ==
    /\ pc = "idle"
    /\ pc' = "aborted"
    /\ fault' = "UnsupportedPlatform"
    /\ UNCHANGED <<pathVars, fs, ledger, installed, artifacts, runInputs, outcome,
                   dirVars>>
    /\ UNCHANGED webVars

\* [Files]: the files are copied, or a copy fails and the run is abandoned
\* with the files written so far left or taken back.
InstallFiles ==
    /\ pc = "files"
    /\ \/ /\ installed' = TRUE
          /\ appDir' = TRUE
          /\ pc' = NextStep("files")
          /\ UNCHANGED runVars
          /\ UNCHANGED outcome
       \/ \E left \in {installed, TRUE} :
             /\ installed' = left
             /\ appDir' = (appDir \/ left)
             /\ pc' = "aborted"
             /\ fault' = "CopyFailed"
             /\ DropRun
    /\ UNCHANGED <<pathVars, fs, ledger, artifacts, userFile>>
    /\ UNCHANGED webVars

\* [Registry]: InstallPath, Version, ExtensionVersion, InstallDate; each
\* entry is one value written under the key, which the first write creates.
RegistryEntries ==
    [registry |-> [name |-> "InstallPath", data |-> BuildRecord.InstallPath],
     regVersion |-> [name |-> "Version", data |-> AppVersion],
     regExtensionVersion |-> [name |-> "ExtensionVersion", data |-> ExtVersion],
     regInstallDate |-> [name |-> "InstallDate", data |-> BuildRecord.InstallDate]]

RegWriteStringValue(l, name, data) == [l EXCEPT !.key = TRUE, ![name] = data]

WriteRegistry ==
    /\ pc \in DOMAIN RegistryEntries
    /\ ledger' = RegWriteStringValue(ledger, RegistryEntries[pc].name,
                                     RegistryEntries[pc].data)
    /\ pc' = NextStep(pc)
    /\ UNCHANGED <<pathVars, fs, installed, artifacts, runVars, outcome, dirVars>>
    /\ UNCHANGED webVars

\* AddToPath, for the task addtopath
StepAddToPath ==
    /\ pc = "path"
    /\ IF "addtopath" \in tasks
       THEN LET readOk == pathAccess \notin {"readDenied", "denied"}
                writeOk == pathAccess \notin {"writeDenied", "denied"}
            IN  /\ path' = AddToPath(path, seg, readOk, writeOk)
                /\ pmLog' = Append(pmLog, PMEntryIO(path, path', readOk, writeOk))
       ELSE UNCHANGED <<path, pmLog>>
    /\ pc' = NextStep("path")
    /\ UNCHANGED <<seg, fs, ledger, installed, artifacts, runVars, outcome, dirVars>>
    /\ UNCHANGED webVars

\* What a target's install leaves behind.
Record(t, result) ==
    /\ outcome' = [outcome EXCEPT ![t] = result]
    /\ artifacts' = IF result = "Succeeded" THEN artifacts \cup {t} ELSE artifacts
    /\ pc' = StepAfter(t, result # "FailedIgnored")

SkipTarget(t) ==
    /\ pc' = StepAfter(t, TRUE)
    /\ UNCHANGED <<artifacts, outcome>>

\* The post-install procedures are run for the tasks that are selected.
\* InstallJetBrainsPlugin: copies the plugin where DirExists finds a plugins
\* directory (Skipped where it finds none); the result of FileCopy is not
\* looked at.
StepJetBrains ==
    /\ pc = "jetbrains"
    /\ IF "jetbrains" \in tasks
       THEN \E result \in {"Succeeded", "FailedIgnored", "Skipped"} :
                Record("jetbrains", result)
       ELSE SkipTarget("jetbrains")
    /\ UNCHANGED <<pathVars, fs, ledger, installed, runVars, dirVars>>
    /\ UNCHANGED webVars

\* InstallNeovimSupport: DirExists(ConfigPath) decides whether the helper
\* file is written.
AssumeConfigDir(f) == TRUE
ConfigDirExists(f) == f.nvimConfigDir

\* InstallNeovimSupport: writes nebula-setup.lua only if the config
\* directory exists; the result of SaveStringToFile is not looked at.
StepNeovim ==
    /\ pc = "neovim"
    /\ IF "neovim" \in tasks
       THEN IF ConfigDirExists(fs)
            THEN \E result \in {"Succeeded", "FailedIgnored"} :
                     Record("neovim", result)
            ELSE Record("neovim", "Skipped")
       ELSE SkipTarget("neovim")
    /\ UNCHANGED <<pathVars, fs, ledger, installed, runVars, dirVars>>
    /\ UNCHANGED webVars

\* [Run]: code.cmd --install-extension, Tasks: vscode, Check:
\* IsVSCodeDetected, Flags: nowait skipifsilent.
RunEntryApplies == "vscode" \in tasks /\ found.VSCodeFound /\ ~silent

\* Flags: nowait: Setup does not wait for the launched process to exit.
WaitUntilTerminated == FALSE
NoWait == TRUE

\* The launched code.cmd installs the extension, fails, or never exits
\* ("Running").
RunVSCode ==
    /\ pc = "run"
    /\ outcome["vscode"] # "Running"
    /\ IF RunEntryApplies
       THEN \E result \in {"Succeeded", "FailedIgnored", "Running"} :
                /\ outcome' = [outcome EXCEPT !["vscode"] = result]
                /\ artifacts' = IF result = "Succeeded"
                                THEN artifacts \cup {"vscode"} ELSE artifacts
                /\ pc' = IF result = "Running" /\ ~NoWait THEN pc ELSE NextStep(pc)
       ELSE /\ UNCHANGED <<artifacts, outcome>>
            /\ pc' = NextStep(pc)
    /\ UNCHANGED <<pathVars, fs, ledger, installed, runVars, dirVars>>
    /\ UNCHANGED webVars

\* Setup exits after the last step.
Finish ==
    /\ pc = "finished"
    /\ pc' = "idle"
    /\ ResetRun
    /\ UNCHANGED <<pathVars, fs, ledger, installed, artifacts, dirVars>>
    /\ UNCHANGED webVars

\* Setup exits after it was refused, a copy failed or the user cancelled.
Abandon ==
    /\ pc = "aborted"
    /\ pc' = "idle"
    /\ ResetRun
    /\ UNCHANGED <<pathVars, fs, ledger, installed, artifacts, dirVars>>
    /\ UNCHANGED webVars

\* ActClose: the user closes the wizard; the steps not yet taken are not
\* taken and what was done stays.
Cancel ==
    /\ pc \notin {"idle", "finished", "aborted"}
    /\ pc' = "aborted"
    /\ fault' = "Cancelled"
    /\ DropRun
    /\ UNCHANGED <<pathVars, fs, ledger, installed, artifacts, dirVars>>
    /\ UNCHANGED webVars

\* [UninstallDelete]: the entries name files of the install and directories
\* to remove if empty; a file of the user's is not named and keeps {app}.
RecursiveDelete(u, d) == [userFile |-> FALSE, appDir |-> FALSE]
UninstallDelete(u, d) == [userFile |-> u, appDir |-> d /\ u]

\* Flags: uninsdeletekey on Software\Nebula: the uninstaller deletes the
\* key with all its values.
KeepKey(l) == l
UninsDeleteKey(l) == NoRecord

\* The uninstaller: the installed files and [UninstallDelete], and the
\* Software\Nebula key (uninsdeletekey).
Uninstall ==
    /\ pc = "idle"
    /\ installed
    /\ installed' = FALSE
    /\ ledger' = UninsDeleteKey(ledger)
    /\ userFile' = UninstallDelete(userFile, appDir).userFile
    /\ appDir' = UninstallDelete(userFile, appDir).appDir
    /\ UNCHANGED <<pathVars, fs, artifacts, pc, runVars, outcome>>
    /\ UNCHANGED webVars

Next ==
    \/ StartInstall
    \/ RefuseOldWindows
    \/ InstallFiles
    \/ WriteRegistry
    \/ StepAddToPath
    \/ StepJetBrains
    \/ StepNeovim
    \/ RunVSCode
    \/ Finish
    \/ Abandon
    \/ Cancel
    \/ Uninstall

Spec == Init /\ [][Next]_vars

\* Setup performs the steps of a run one after the other without waiting
\* for anything but the step itself; runs on a machine that has both
\* code.cmd files, from every ledger.
InitLive ==
    InitWith({<<>>},
             {f \in FsStates : f.userCodeCmd /\ f.machineCodeCmd /\ ~f.nvimExe
                                /\ ~f.toolboxDir},
             {FALSE})

\* Runs and uninstalls on a machine with Neovim, with and without a file of
\* the user's inside the install directory.
InitDirs ==
    InitWith({<<>>},
             {f \in FsStates : ~f.userCodeCmd /\ ~f.machineCodeCmd /\ f.nvimExe
                                /\ ~f.toolboxDir},
             BOOLEAN)

SpecDirs == InitDirs /\ [][Next]_vars

SpecLive ==
    /\ InitLive
    /\ [][Next]_vars
    /\ WF_vars(InstallFiles)
    /\ WF_vars(WriteRegistry)
    /\ WF_vars(StepAddToPath)
    /\ WF_vars(StepJetBrains)
    /\ WF_vars(StepNeovim)
    /\ WF_vars(RunVSCode)

\* ------------------------------------------------------------------------
\* The playground's execute endpoint: POST (route.ts)
\* ------------------------------------------------------------------------
\* No installer on the machine, no Setup process.
IdleSetup ==
    /\ path = <<>>
    /\ seg = AppBin
    /\ pmLog = <<>>
    /\ fs = [userCodeCmd |-> FALSE, machineCodeCmd |-> FALSE, nvimExe |-> FALSE,
             toolboxDir |-> FALSE, nvimConfigDir |-> FALSE]
    /\ ledger = NoRecord
    /\ installed = FALSE
    /\ artifacts = {}
    /\ userFile = FALSE
    /\ appDir = FALSE
    /\ IdleRun

InitWeb == IdleSetup /\ IdleWeb

\* tempFileName: `nebula_playground_${Date.now()}.na`
TempFileName(t) == t

SetReq(r, fields) == req' = [req EXCEPT ![r] = fields]

\* What the endpoint, the page, the adapter leave alone.
exceptExec == <<setupVars, pageVars, daVars>>
exceptPage == <<setupVars, execVars, daVars>>
exceptDA == <<setupVars, execVars, pageVars>>

\* The request arrives; without code it is answered with status 400, else
\* the file name is made and fs.writeFile is started.
POST_Receive ==
    /\ \E r \in Requests, c \in Sources \cup {""} :
           /\ req[r].pc = "waiting"
           /\ IF c = ""
              THEN SetReq(r, [req[r] EXCEPT !.pc = "done"])
              ELSE SetReq(r, [pc |-> "writing", code |-> c,
                              tempFilePath |-> TempFileName(now), read |-> "none"])
           /\ UNCHANGED <<now, tmp>>
    /\ UNCHANGED exceptExec

\* await fs.writeFile(tempFilePath, code)
POST_WriteFile ==
    /\ \E r \in Requests :
           /\ req[r].pc = "writing"
           /\ tmp' = [tmp EXCEPT ![req[r].tempFilePath] = req[r].code]
           /\ SetReq(r, [req[r] EXCEPT !.pc = "spawned"])
           /\ UNCHANGED now
    /\ UNCHANGED exceptExec

\* spawn(nebulaPath, ['--vm', tempFilePath]): the interpreter opens the file
\* and runs what is in it, or fails when there is no file.
POST_Spawn ==
    /\ \E r \in Requests :
           /\ req[r].pc = "spawned"
           /\ SetReq(r, [req[r] EXCEPT
                           !.pc = "cleanup",
                           !.read = IF tmp[req[r].tempFilePath] = "absent"
                                    THEN "missing" ELSE tmp[req[r].tempFilePath]])
           /\ UNCHANGED <<now, tmp>>
    /\ UNCHANGED exceptExec

\* finally: fs.unlink(tempFilePath), errors ignored
POST_Unlink ==
    /\ \E r \in Requests :
           /\ req[r].pc = "cleanup"
           /\ tmp' = [tmp EXCEPT ![req[r].tempFilePath] = "absent"]
           /\ SetReq(r, [req[r] EXCEPT !.pc = "done"])
           /\ UNCHANGED now
    /\ UNCHANGED exceptExec

\* A millisecond passes.
ClockTick ==
    /\ now < MaxClock
    /\ now' = now + 1
    /\ UNCHANGED <<tmp, req>>
    /\ UNCHANGED exceptExec

NextExec ==
    \/ POST_Receive
    \/ POST_WriteFile
    \/ POST_Spawn
    \/ POST_Unlink
    \/ ClockTick

SpecExec == InitWeb /\ [][NextExec]_vars

\* ------------------------------------------------------------------------
\* The playground page: PlaygroundPage (part_001)
\* ------------------------------------------------------------------------
\* The page sends at most MaxRuns requests.
MaxRuns == 3

\* What the endpoint answers for a program: "x" is a program that fails,
\* "" is answered with 'No code provided.'.
Execute(c) ==
    IF c = "" THEN [output |-> "", error |-> "No code provided."]
    ELSE IF c = "x" THEN [output |-> "", error |-> "E"]
    ELSE IF c = "p" THEN [output |-> "P", error |-> "null"]
    ELSE [output |-> "Q", error |-> "null"]

Pending == {i \in 1..Len(requests) : requests[i].state = "pending"}

\* runCode up to the await of fetch
RunCode ==
    /\ Len(requests) < MaxRuns
    /\ isLoading' = TRUE
    /\ error' = "null"
    /\ requests' = Append(requests, [code |-> code, state |-> "pending"])
    /\ UNCHANGED output

\* onChange: setCode; the effect's cleanup clears the timer, the effect sets
\* a new one.
EditCode ==
    /\ \E c \in (Sources \cup {""}) \ {code} : code' = c
    /\ timer' = TRUE
    /\ UNCHANGED <<output, error, isLoading, requests>>
    /\ UNCHANGED exceptPage

\* The debounce timer fires: runCode unless the code is blank.
TimerFires ==
    /\ timer
    /\ timer' = FALSE
    /\ IF code # "" THEN RunCode ELSE UNCHANGED <<output, error, isLoading, requests>>
    /\ UNCHANGED code
    /\ UNCHANGED exceptPage

\* The Run button, disabled while isLoading.
ClickRun ==
    /\ ~isLoading
    /\ RunCode
    /\ UNCHANGED <<code, timer>>
    /\ UNCHANGED exceptPage

\* A fetch resolves: the rest of runCode for that call.
Settle(i, state) ==
    /\ requests' = [requests EXCEPT ![i].state = state]
    /\ isLoading' = FALSE
    /\ UNCHANGED <<code, timer>>

FetchResolves ==
    /\ \E i \in Pending :
           LET data == Execute(requests[i].code)
           IN  /\ IF data.error # "null"
                  THEN error' = data.error /\ UNCHANGED output
                  ELSE output' = data.output /\ UNCHANGED error
               /\ Settle(i, "answered")
    /\ UNCHANGED exceptPage

\* A fetch rejects: the catch branch.
FetchFails ==
    /\ \E i \in Pending :
           /\ error' = "Failed to connect to execution server."
           /\ UNCHANGED output
           /\ Settle(i, "failed")
    /\ UNCHANGED exceptPage

NextPage ==
    \/ EditCode
    \/ TimerFires
    \/ ClickRun
    \/ FetchResolves
    \/ FetchFails

SpecPage == InitWeb /\ [][NextPage]_vars

\* ------------------------------------------------------------------------
\* The debug adapter: NebulaDebugAdapter.handleMessage (extension.ts)
\* ------------------------------------------------------------------------
\* handleMessage is called MaxMessages times, with seq in 1..MaxSeq.
MaxMessages == 3
MaxSeq == 2

\* The commands of the messages; "none" is a message without a command.
DACommands ==
    {"initialize", "launch", "configurationDone", "disconnect", "threads", "none"}

\* The messages, all with the same fields: a response has no event, an
\* event no request_seq, success and command.
Response(cmd, seq) ==
    [type |-> "response", request_seq |-> seq, success |-> TRUE, command |-> cmd,
     event |-> ""]
Event(e) ==
    [type |-> "event", request_seq |-> 0, success |-> FALSE, command |-> "",
     event |-> e]

\* What handleMessage passes to sendMessage, in order.
EventFirst(cmd, seq) ==
    IF cmd = "initialize" THEN <<Event("initialized"), Response(cmd, seq)>>
    ELSE IF cmd = "launch" THEN <<Event("terminated"), Response(cmd, seq)>>
    ELSE IF cmd \in {"configurationDone", "disconnect"} THEN <<Response(cmd, seq)>>
    ELSE <<>>
Replies(cmd, seq) ==
    IF cmd = "initialize" THEN <<Response(cmd, seq), Event("initialized")>>
    ELSE IF cmd = "launch" THEN <<Response(cmd, seq), Event("terminated")>>
    ELSE IF cmd = "configurationDone" THEN <<Response(cmd, seq)>>
    ELSE IF cmd = "disconnect" THEN <<Response(cmd, seq)>>
    ELSE <<>>

\* launch: a terminal is created unless one is open, and the command is
\* sent to it.
handleMessage ==
    /\ Len(handled) < MaxMessages
    /\ \E cmd \in DACommands, seq \in 1..MaxSeq :
          /\ sent' = sent \o Replies(cmd, seq)
          /\ handled' = Append(handled, [command |-> cmd, seq |-> seq,
                                         from |-> Len(sent) + 1,
                                         to |-> Len(sent')])
          /\ runnerTerminal' = IF cmd = "launch" THEN "open" ELSE runnerTerminal
    /\ UNCHANGED exceptDA

\* The user closes the terminal.
TerminalExits ==
    /\ runnerTerminal = "open"
    /\ runnerTerminal' = "exited"
    /\ UNCHANGED <<sent, handled>>
    /\ UNCHANGED exceptDA

NextDA ==
    \/ handleMessage
    \/ TerminalExits

SpecDA == InitWeb /\ [][NextDA]_vars

\* ------------------------------------------------------------------------
\* Properties of the PATH Mutator (checked under SpecPath)
\* ------------------------------------------------------------------------
IsEnsure(i) == pmLog[i].op = "ensure"
IsRemove(i) == pmLog[i].op = "remove"

\* The segments of a value that are not the installer's segment, in order.
OtherSegments(value) == SelectSeq(Split(value), LAMBDA x : x # seg /\ x # <<>>)

\* A segment different from seg that contains seg as a substring.
HasLookalike(value) ==
    \E i \in 1..Len(Split(value)) :
        Split(value)[i] # seg /\ Pos(seg, Split(value)[i]) # 0

\* C1: two successive calls of EnsureSegmentPresent with the same segment
\* leave PATH as the first call left it: the second call changes nothing.
C1_EnsureIdempotent ==
    \A i \in 1..(Len(pmLog) - 1) :
        (IsEnsure(i) /\ IsEnsure(i + 1)) => pmLog[i + 1].after = pmLog[i].after

C1_Witness ==
    \E i \in 1..(Len(pmLog) - 1) :
        IsEnsure(i) /\ IsEnsure(i + 1) /\ pmLog[i].wrote

\* C2: RemoveSegment removes only segments equal to the given one: the
\* segments that differ from it, also those that contain it as a substring,
\* are the same before and after, in the same order.
C2_RemoveExactOnly ==
    \A i \in 1..Len(pmLog) :
        IsRemove(i) => OtherSegments(pmLog[i].after) = OtherSegments(pmLog[i].before)

C2_Witness ==
    \E i \in 1..Len(pmLog) :
        IsRemove(i) /\ pmLog[i].wrote /\ HasLookalike(pmLog[i].before)

\* C3: round trip.  From a PATH value P without a segment equal to S,
\* EnsureSegmentPresent yields P;S and the following RemoveSegment yields P.
C3_RoundTrip ==
    \A i \in 1..(Len(pmLog) - 1) :
        (IsEnsure(i) /\ IsRemove(i + 1) /\ ~HasSegment(seg, pmLog[i].before))
            => /\ pmLog[i].after = pmLog[i].before \o <<Delim>> \o seg
               /\ pmLog[i + 1].after = pmLog[i].before

\* C4: after one or more calls of EnsureSegmentPresent with the same segment
\* PATH holds exactly one segment equal to it.
C4_ExactlyOneOccurrence ==
    (Len(pmLog) > 0 /\ \A i \in 1..Len(pmLog) : IsEnsure(i))
        => CountSeg(seg, path) = 1

\* C5: presence is decided by segment equality.  Without a segment equal to
\* S but with a segment that contains S, the call writes and S becomes a
\* segment; with a segment equal to S the call does not write.
C5_ExactSegmentMatch ==
    \A i \in 1..Len(pmLog) :
        IsEnsure(i) =>
            /\ (~HasSegment(seg, pmLog[i].before) /\ HasLookalike(pmLog[i].before))
                  => (pmLog[i].wrote /\ HasSegment(seg, pmLog[i].after))
            /\ HasSegment(seg, pmLog[i].before) => ~pmLog[i].wrote

\* C6: the value written has no doubled, leading or missing delimiter: S
\* alone from an empty PATH, S right after a trailing delimiter, and one
\* delimiter between the old value and S otherwise.
C6_DelimiterPlacement ==
    \A i \in 1..Len(pmLog) :
        (IsEnsure(i) /\ pmLog[i].wrote) =>
            pmLog[i].after =
                IF pmLog[i].before = <<>> THEN seg
                ELSE IF pmLog[i].before[Len(pmLog[i].before)] = Delim
                     THEN pmLog[i].before \o seg
                     ELSE pmLog[i].before \o <<Delim>> \o seg

\* ------------------------------------------------------------------------
\* Properties of install runs (checked under Spec)
\* ------------------------------------------------------------------------
InRun == pc \notin {"idle", "aborted"}

\* The step of the run at which a target's install is performed.
TargetStep(t) == IF t = "vscode" THEN "run" ELSE t

\* The target is selected and its entry applies to this run.
Selected(t) == IF t = "vscode" THEN RunEntryApplies ELSE t \in tasks

Invoked == {t \in Targets : outcome[t] # "None"}

\* C7: isolation.  Once the run is past a selected target's step that
\* target has been attempted, whatever happened to the other targets; a
\* failed target does not end the run.
C7_Isolation ==
    InRun =>
        \A t \in Targets :
            (Selected(t) /\ StepIndex(pc) > StepIndex(TargetStep(t)))
                => outcome[t] # "None"

C7_Witness ==
    /\ pc = "finished"
    /\ outcome["neovim"] = "FailedIgnored"
    /\ outcome["vscode"] = "Succeeded"

\* C8: in a run whose state is UpgradeSameVersion no target is invoked.
C8_SameVersionNoInvocation ==
    (InRun /\ reconState = "UpgradeSameVersion") => Invoked = {}

\* C9: in a run whose state is UpgradeNewVersion the targets are invoked
\* exactly when the stored ExtensionVersion differs from the build's, and
\* then every selected target is invoked.
C9_NewVersionRunsOnExtChange ==
    (pc = "finished" /\ reconState = "UpgradeNewVersion") =>
        IF ShouldInstallExtensions(prior)
        THEN \A t \in Targets \cap tasks : t \in Invoked
        ELSE Invoked = {}

C13_FatalPreconditionNoMutation ==
    [][(lowDisk \/ RefuseOldWindows \/ (Uninstall /\ ~ledger.key))
          => UNCHANGED <<installed, path, ledger, artifacts, dirVars>>]_vars

\* C14: a run signals success only if it met no fatal precondition and no
\* mutation failure (a PATH write that was denied), whatever the outcomes
\* of the extension installs.
C14_SignalFromFatalAndMutationOnly ==
    (pc = "finished") =>
        /\ ~lowDisk
        /\ \A i \in 1..Len(pmLog) :
              pmLog[i].writeOk \/ ~SegmentAbsent(seg, pmLog[i].before)

\* C15: when PATH cannot be read or cannot be written the call of AddToPath
\* leaves PATH as it was, and the run still goes on to its end with the
\* ledger written.
C15_PathFailureLeavesPath ==
    \A i \in 1..Len(pmLog) :
        (~pmLog[i].readOk \/ ~pmLog[i].writeOk)
            => /\ pmLog[i].after = pmLog[i].before
               /\ pc \in {"jetbrains", "neovim", "run", "finished", "idle", "aborted"}
               /\ (pc = "finished" => ledger = BuildRecord)

\* C16: within a run PATH and the ledger are written only at steps after
\* the file copy; a run whose copy failed has the ledger it found and has
\* not called AddToPath.
C16_WritesAfterCopy ==
    /\ [][(InRun /\ (path' # path \/ ledger' # ledger))
             => StepIndex(pc) > StepIndex("files")]_vars
    /\ [](fault = "CopyFailed" => (ledger = prior /\ pmLog = <<>>))

C16_Witness ==
    /\ pc = "aborted"
    /\ fault = "CopyFailed"
    /\ installed
    /\ ~ledger.key

C18_UninstallRestoresPath ==
    [][(Uninstall /\ pmLog # <<>>) => path' = pmLog[1].before]_vars

\* C19: in a run started with /NOEXTENSIONS no target's install is
\* attempted and no extension artifact is written.
C19_NoExtensionsSkipsAll ==
    [][(InRun /\ noExt) => (Invoked = {} /\ artifacts' = artifacts)]_vars

\* C20: the Neovim helper file is written only where the config directory
\* exists; where the task is selected and the directory does not exist the
\* outcome is Skipped and the step writes nothing; no step creates or
\* changes a file or directory of the user's.
C20_NeovimOnlyIntoExistingDir ==
    [][/\ fs' = fs
       /\ StepNeovim =>
             /\ outcome'["neovim"] = "Succeeded" => fs.nvimConfigDir
             /\ ("neovim" \in tasks /\ ~fs.nvimConfigDir)
                   => (outcome'["neovim"] = "Skipped" /\ artifacts' = artifacts)]_vars

C20_Witness ==
    /\ pc = "run"
    /\ "neovim" \in tasks
    /\ ~fs.nvimConfigDir
    /\ outcome["neovim"] = "Skipped"
    /\ "neovim" \notin artifacts

C22_LedgerWriteAtomic == InRun => (ledger = prior \/ ledger = BuildRecord)

\* C23: an editor task is checked by default exactly when its editor was
\* detected, the PATH task is checked by default, the shortcut and the file
\* association tasks are not, and the wizard's check boxes show these
\* defaults.
C23_DefaultTaskSelection ==
    InRun =>
        /\ \A t \in Targets : (t \in DefaultTasks(found)) <=> Detected(t, found)
        /\ "addtopath" \in DefaultTasks(found)
        /\ "desktopicon" \notin DefaultTasks(found)
        /\ "fileassoc" \notin DefaultTasks(found)
        /\ \A t \in DOMAIN WizardChecked :
              WizardChecked[t] <=> (t \in DefaultTasks(found))

\* C24: a cancel ends the run with everything written so far left as it
\* is, and the uninstall that follows a run in which the segment was added
\* to PATH leaves PATH without a segment equal to it and the ledger absent.
C24_CancelKeepsUninstallReverses ==
    [][/\ Cancel => (pc' = "aborted"
                     /\ UNCHANGED <<path, ledger, installed, artifacts>>)
       /\ (Uninstall /\ pmLog # <<>> /\ pmLog[1].wrote)
             => (~HasSegment(seg, path') /\ ~ledger'.key)]_vars

\* C25: whether the extensions are to be installed is the same when it is
\* asked after the run's own registry writes as when it is asked before
\* them, i.e. from the record the run found.
C25_DecisionNotReevaluated ==
    InRun => (ShouldInstallExtensions(ledger) <=> ShouldInstallExtensions(prior))

\* C26: after an uninstall the ledger record is absent and PATH holds no
\* segment equal to the installed bin directory.
C26_UninstallRemovesSegmentAndRecord ==
    [][Uninstall => (~ledger'.key /\ ~HasSegment(seg, path'))]_vars

\* C30: in a run VSCodeFound holds exactly when VSCodeBin names one of the
\* two code.cmd files and that file exists; when VSCodeFound does not hold
\* VSCodeBin is empty, and code.cmd is launched only when VSCodeFound holds.
C30_LocatorIffDetected ==
    InRun =>
        /\ found.VSCodeFound <=>
              \/ (found.VSCodeBin = "user" /\ fs.userCodeCmd)
              \/ (found.VSCodeBin = "machine" /\ fs.machineCodeCmd)
        /\ ~found.VSCodeFound => found.VSCodeBin = ""
        /\ outcome["vscode"] # "None" => found.VSCodeFound

C30_Witness ==
    /\ pc = "finished"
    /\ "neovim" \in tasks
    /\ ~found.VSCodeFound
    /\ found.VSCodeBin = ""
    /\ outcome["vscode"] = "None"

\* ------------------------------------------------------------------------
\* The playground (checked under SpecExec and SpecPage)
\* ------------------------------------------------------------------------
\* C27: two requests never have the same temporary file at the same time,
\* and the interpreter run of a request reads the code of that request.
C27_OwnTempFile ==
    /\ \A r1 \in Requests, r2 \in Requests :
          (r1 # r2 /\ req[r1].pc \in {"writing", "spawned", "cleanup"}
                   /\ req[r2].pc \in {"writing", "spawned", "cleanup"})
              => req[r1].tempFilePath # req[r2].tempFilePath
    /\ \A r \in Requests : req[r].read \in {"none", req[r].code}

\* C28: once every request has been answered, what is displayed is the
\* result of the request submitted last: its error, or its output and no
\* error.
C28_LatestResultDisplayed ==
    (requests # <<>> /\ \A i \in 1..Len(requests) : requests[i].state = "answered")
        => LET data == Execute(requests[Len(requests)].code)
           IN  IF data.error # "null"
               THEN error = data.error
               ELSE output = data.output /\ error = "null"

\* ------------------------------------------------------------------------
\* The debug adapter (checked under SpecDA)
\* ------------------------------------------------------------------------
Sent(i) == SubSeq(sent, handled[i].from, handled[i].to)

\* C29: for initialize, launch, configurationDone and disconnect the
\* adapter sends first one success response with the request's seq and
\* command, then for initialize the initialized event and for launch the
\* terminated event, and nothing else; for any other message it sends
\* nothing.
C29_OneResponsePerRequest ==
    \A i \in 1..Len(handled) :
        LET cmd == handled[i].command
            out == Sent(i)
        IN  IF cmd \in {"initialize", "launch", "configurationDone", "disconnect"}
            THEN /\ Len(out) >= 1
                 /\ out[1].type = "response"
                 /\ out[1].request_seq = handled[i].seq
                 /\ out[1].success
                 /\ out[1].command = cmd
                 /\ \A k \in 2..Len(out) : out[k].type = "event"
                 /\ Len(out) = (IF cmd \in {"initialize", "launch"} THEN 2 ELSE 1)
                 /\ cmd = "initialize" => out[2].event = "initialized"
                 /\ cmd = "launch" => out[2].event = "terminated"
            ELSE out = <<>>

C29_Witness ==
    /\ Len(handled) = 3
    /\ handled[1].command = "initialize"
    /\ handled[2].command = "launch"
    /\ handled[3].command = "threads"
    /\ Len(sent) = 4
    /\ runnerTerminal = "exited"

====
